---- MODULE Spec2Model ----
(***************************************************************************)
(* AgenticOne: the client-side chat orchestration of src/index-backup.tsx  *)
(* (component App), the identity provider of src/unnamed/part_001          *)
(* (class NewGoogleAuth) and the agent table of src/constants.tsx.         *)
(*                                                                         *)
(* React state is one variable per useState cell.  An event handler or the *)
(* continuation of an await is one atomic action: React batches the state  *)
(* updates of one callback and the closure a handler runs with is the one  *)
(* of the last committed render.  Text is a sequence of tokens, so that    *)
(* concatenation and trimming are computed, not assumed.                   *)
(***************************************************************************)
EXTENDS Integers, Sequences, FiniteSets, TLC

\* ------------------------------------------------------------------ bounds
MaxTurns == 2          \* submissions accepted in one behaviour
MaxChunks == 2         \* chunks one stream delivers
MaxTokens == 1         \* largest count a countTokens call returns
MaxQueries == 52       \* submissions accepted in one behaviour of HistorySpec
MaxBatches == 2        \* file selections (handleFileChange calls) in one behaviour
MaxSubscriptions == 3  \* onAuthStateChanged calls in one behaviour
MaxSaves == 3          \* items written to localStorage in one behaviour
MaxTicks == 1          \* firings of one upload interval before its 1000 ms timeout

\* ------------------------------------------------------- program constants
MAX_FILES == 5
MAX_FILE_SIZE_MB == 10
MAX_FILE_SIZE_BYTES == MAX_FILE_SIZE_MB * 1024 * 1024
TOTAL_TOKEN_LIMIT == 10000
HISTORY_KEEP == 49

AgentRole == {"METHODS_SPECIALIST", "CORROSION_ENGINEER", "SUBSEA_ENGINEER", "DISCIPLINE_HEAD"}

AgentName(a) ==
    CASE a = "METHODS_SPECIALIST" -> "Methods Specialist"
      [] a = "CORROSION_ENGINEER" -> "Corrosion Engineer"
      [] a = "SUBSEA_ENGINEER" -> "Subsea Engineer"
      [] a = "DISCIPLINE_HEAD" -> "Discipline Head"

\* AGENT_ROLES[a].getWelcomeMessage(userName): a text naming the user and the agent
getWelcomeMessage(a, userName) ==
    <<"Welcome, ", userName, ". I am the ", AgentName(a), ".">>

ERROR_TEXT == <<"Sorry, I encountered an error. Please try again.">>

\* the keys of ragSources, in the order Object.entries lists them
RagSourceKeys == <<"standards", "internal", "sensors", "workorders">>

InitialRagSources ==
    [key \in {RagSourceKeys[i] : i \in 1..Len(RagSourceKeys)} |-> key \in {"standards", "internal"}]

\* ------------------------------------------------------------- input sets
Null == [kind |-> "null"]

GuestNames == {"Ann", "Bob"}
GoogleNames == {"", "Gil"}             \* payload.name; "" stands for a payload without a name

\* signInAsGuest(customName): the user object the provider builds
GuestUser(customName) ==
    [kind |-> "user", email |-> "guest@agenticone.com",
     name |-> IF customName = "" THEN "Guest User" ELSE customName]

\* handleCredentialResponse: the user object built from the decoded payload
GoogleUserOf(payloadName) ==
    [kind |-> "user", email |-> "bob@example.com", name |-> payloadName]

\* what the user types into the chat input: nothing, or a text with a leading blank
Inputs == {<<>>, <<" ", "q">>}

\* an input of blanks only
BlankInputs == {<<" ">>}

\* the tabs the user clicks
Selectable == {"METHODS_SPECIALIST", "CORROSION_ENGINEER"}

\* chunk.text of the k-th item of a stream: empty (falsy), or a text of its own
ChunkTexts(k) == {<<>>, <<"c", k>>}

TokenCounts == 0..MaxTokens

\* the counts of long requests: half the displayed limit, and the limit itself
LargeTokenCounts == {TOTAL_TOKEN_LIMIT \div 2, TOTAL_TOKEN_LIMIT}

\* the File objects a file picker hands over: name, size in bytes, type
SmallFile == [name |-> "a.txt", size |-> 1, type |-> "text/plain"]
LimitFile == [name |-> "b.bin", size |-> MAX_FILE_SIZE_BYTES, type |-> ""]
BigFile == [name |-> "c.pdf", size |-> MAX_FILE_SIZE_BYTES + 1, type |-> "application/pdf"]

\* e.target.files of one selection
FileSelections ==
    {<<SmallFile>>,
     <<BigFile>>,
     <<SmallFile, BigFile, BigFile, BigFile, LimitFile>>,
     <<SmallFile, SmallFile, LimitFile, BigFile, SmallFile, SmallFile>>}

\* user emails, as texts cut at their underscores: the guest address, and an
\* address with an underscore in its local part
Emails == {<<"guest@agenticone.com">>, <<"guest", "_", "2@agenticone.com">>}

\* ---------------------------------------------------------------- helpers
RECURSIVE trimStart(_)
trimStart(s) == IF s # <<>> /\ Head(s) = " " THEN trimStart(Tail(s)) ELSE s

RECURSIVE trimEnd(_)
trimEnd(s) == IF s # <<>> /\ s[Len(s)] = " " THEN trimEnd(SubSeq(s, 1, Len(s) - 1)) ELSE s

\* String.prototype.trim
trim(s) == trimEnd(trimStart(s))

\* currentUser.name || 'there'
nameOrThere(u) == IF u.name = "" THEN "there" ELSE u.name

\* prev[agent] || []
historyOf(h, a) == IF a \in DOMAIN h THEN h[a] ELSE <<>>

\* { ...prev, [agent]: msgs }
withHistory(h, a, msgs) == [k \in (DOMAIN h) \cup {a} |-> IF k = a THEN msgs ELSE h[k]]

EmptyHistories == [k \in {} |-> <<>>]

welcomeOf(a, u) ==
    [role |-> "assistant", content |-> getWelcomeMessage(a, nameOrThere(u)), agentId |-> a]

\* a variant that greets every user by the fallback name
initialHistoriesNoName(u) ==
    [a \in AgentRole |-> <<[welcomeOf(a, u) EXCEPT !.content = getWelcomeMessage(a, "there")]>>]

initialHistories(u) == [a \in AgentRole |-> <<welcomeOf(a, u)>>]

userMessageOf(text) == [role |-> "user", content |-> text, agentId |-> "undefined"]

assistantMessageOf(a, text) == [role |-> "assistant", content |-> text, agentId |-> a]

\* fileError: null, or the text of the last message set
NoError == <<>>
MaxFilesError == <<"You can upload a maximum of ", MAX_FILES, " files.">>
SizeError(name) == <<"File ", name, " exceeds the ", MAX_FILE_SIZE_MB, "MB size limit.">>
ReadError(name) == <<"Error reading file ", name, ".">>

errorMessageOf(a) == [role |-> "assistant", content |-> ERROR_TEXT, agentId |-> a]

\* ------------------------------------------------------------------ state
VARIABLES
    mounted,        \* the React root renders App (FALSE before it is created and after a render error)
    authUser,       \* NewGoogleAuth.user
    isInitialized,  \* NewGoogleAuth.isInitialized
    authSetup,      \* NewGoogleAuth.initializeAuth: "waiting" for the Google script, then "done"
    promptOpen,     \* a Google prompt was opened by signIn() and may still answer
    user,           \* App state: user
    isAuthLoading,  \* App state: isAuthLoading
    selectedAgent,  \* App state: selectedAgent
    chatHistories,  \* App state: chatHistories, a mapping AgentRole -> messages
    input,          \* App state: input
    isLoading,      \* App state: isLoading
    isStreaming,    \* App state: isStreaming
    tokenCount,     \* App state: tokenCount
    queryHistory,   \* App state: queryHistory
    submissions,    \* how many submissions were accepted; the clock of Date.now()
    turns,          \* the invocations of handleSendMessage, by order of acceptance
    uploadedFiles,  \* App state: uploadedFiles
    fileError,      \* App state: fileError
    batches,        \* the invocations of handleFileChange that still read files
    timers,         \* the interval and timeout chains handleFileChange started
    selections,     \* how many file selections were made
    everSignedIn,   \* history: some sign-in has been notified to App
    listeners,      \* NewGoogleAuth.listeners, but for the listener of App
    subs,           \* history: the onAuthStateChanged calls made, and whether their handle was called
    notified,       \* the calls the listeners received in the last notification
    ragSources,     \* App state: ragSources
    localStorage,   \* window.localStorage: the items, by key
    latest,         \* history: per (email, role), the messages of the last save not cleared since
    saves,          \* how many items were written
    attempts,       \* waitForGoogleScript: attempts
    lastError       \* the text of the last alert shown or error thrown by the provider

authVars == <<authUser, isInitialized, authSetup, promptOpen, user, isAuthLoading>>
chatVars == <<selectedAgent, chatHistories, input, isLoading, isStreaming, tokenCount, queryHistory, submissions, turns>>
fileVars == <<uploadedFiles, fileError, batches, timers, selections>>
listenerVars == <<listeners, subs, notified>>
storageVars == <<localStorage, latest, saves>>
pollVars == <<attempts, lastError>>
vars == <<mounted, authVars, chatVars, fileVars, everSignedIn, listenerVars, pollVars, ragSources, storageVars>>

TurnIds == 1..MaxTurns

UnusedTurn == [pc |-> "unused", agent |-> "METHODS_SPECIALIST", firstChunk |-> TRUE,
               fullResponse |-> <<>>, chunks |-> 0, fileParts |-> <<>>, inputContents |-> <<>>]

\* a turn that returned: its locals (firstChunk, fullResponse) are gone
EndedTurn(pc, a) ==
    [pc |-> pc, agent |-> a, firstChunk |-> TRUE, fullResponse |-> <<>>, chunks |-> 0, fileParts |-> <<>>,
     inputContents |-> <<>>]

InFlight(t) == turns[t].pc \in {"countInput", "openStream", "streaming", "countOutput"}

\* what App renders: the spinner, the LoginScreen or the chat
LoginShown == mounted /\ ~isAuthLoading /\ user = Null
ChatShown == mounted /\ ~isAuthLoading /\ user # Null

\* the state after construction, but for the React root
InitialValues ==
    /\ authUser = Null
    /\ isInitialized = FALSE
    /\ authSetup = "waiting"
    /\ promptOpen = FALSE
    /\ user = Null
    /\ isAuthLoading = TRUE
    /\ selectedAgent = "METHODS_SPECIALIST"
    /\ chatHistories = EmptyHistories
    /\ input = <<>>
    /\ isLoading = FALSE
    /\ isStreaming = FALSE
    /\ tokenCount = 0
    /\ queryHistory = <<>>
    /\ submissions = 0
    /\ turns = [t \in TurnIds |-> UnusedTurn]
    /\ uploadedFiles = <<>>
    /\ fileError = NoError
    /\ batches = <<>>
    /\ timers = <<>>
    /\ selections = 0
    /\ everSignedIn = FALSE
    /\ listeners = <<>>
    /\ subs = <<>>
    /\ notified = <<>>
    /\ ragSources = InitialRagSources
    /\ localStorage = [key \in {} |-> <<>>]
    /\ latest = [pair \in Emails \X AgentRole |-> <<>>]
    /\ saves = 0
    /\ attempts = 0
    /\ lastError = NoError

Init == mounted = TRUE /\ InitialValues

\* ------------------------------------------------------- identity provider
\* the listener App registers with auth.onAuthStateChanged, as an update of
\* chatHistories: welcome messages are created when the mapping has no key
authListenerHistories(currentUser, h) ==
    IF currentUser # Null /\ DOMAIN h = {} THEN initialHistories(currentUser) ELSE h

\* setupGoogleAuth succeeded: the Google script was there
SetupGoogleAuth ==
    /\ authSetup = "waiting"
    /\ authSetup' = "done"
    /\ isInitialized' = TRUE
    /\ UNCHANGED <<fileVars, everSignedIn, listenerVars, pollVars, ragSources, storageVars, mounted, authUser, promptOpen, user, isAuthLoading, chatVars>>

\* setupFallbackAuth: every listener is called with null
SetupFallbackAuth ==
    /\ mounted /\ authSetup = "waiting"
    /\ authSetup' = "done"
    /\ user' = Null
    /\ chatHistories' = authListenerHistories(Null, chatHistories)
    /\ isAuthLoading' = FALSE
    /\ UNCHANGED <<fileVars, everSignedIn, listenerVars, pollVars, ragSources, storageVars, mounted, authUser, isInitialized, promptOpen, selectedAgent, input,
                   isLoading, isStreaming, tokenCount, queryHistory, submissions, turns>>

\* a variant whose timer fires without clearing the flag
AuthTimeoutIgnored ==
    /\ mounted /\ isAuthLoading /\ authSetup = "done"
    /\ UNCHANGED vars

\* the 10 second timer of the auth effect; the provider's script polling ends
\* within 50 * 100 ms, before this timer is due
AuthTimeout ==
    /\ mounted /\ isAuthLoading /\ authSetup = "done"
    /\ isAuthLoading' = FALSE
    /\ UNCHANGED <<fileVars, everSignedIn, listenerVars, pollVars, ragSources, storageVars, mounted, authUser, isInitialized, authSetup, promptOpen, user, chatVars>>

\* LoginScreen.handleGuestSignIn -> auth.signInAsGuest(name)
SignInAsGuest(customName) ==
    /\ LoginShown
    /\ everSignedIn' = TRUE
    /\ authUser' = GuestUser(customName)
    /\ user' = authUser'
    /\ chatHistories' = authListenerHistories(authUser', chatHistories)
    /\ isAuthLoading' = FALSE
    /\ UNCHANGED <<fileVars, listenerVars, pollVars, ragSources, storageVars, mounted, isInitialized, authSetup, promptOpen, selectedAgent, input,
                   isLoading, isStreaming, tokenCount, queryHistory, submissions, turns>>

\* LoginScreen.handleGoogleSignIn -> auth.signIn(): opens the Google prompt
GoogleSignIn ==
    /\ LoginShown /\ isInitialized /\ ~promptOpen
    /\ promptOpen' = TRUE
    /\ UNCHANGED <<fileVars, everSignedIn, listenerVars, pollVars, ragSources, storageVars, mounted, authUser, isInitialized, authSetup, user, isAuthLoading, chatVars>>

\* handleCredentialResponse with a decodable credential
CredentialResponse(payloadName) ==
    /\ mounted /\ promptOpen
    /\ everSignedIn' = TRUE
    /\ promptOpen' = FALSE
    /\ authUser' = GoogleUserOf(payloadName)
    /\ user' = authUser'
    /\ chatHistories' = authListenerHistories(authUser', chatHistories)
    /\ isAuthLoading' = FALSE
    /\ UNCHANGED <<fileVars, listenerVars, pollVars, ragSources, storageVars, mounted, isInitialized, authSetup, selectedAgent, input,
                   isLoading, isStreaming, tokenCount, queryHistory, submissions, turns>>

\* a variant that also forgets the queries of the session
handleSignOutForgetting ==
    /\ ChatShown
    /\ authUser' = Null
    /\ user' = Null
    /\ isAuthLoading' = FALSE
    /\ chatHistories' = EmptyHistories
    /\ queryHistory' = <<>>
    /\ UNCHANGED <<fileVars, everSignedIn, listenerVars, pollVars, ragSources, storageVars, mounted, isInitialized, authSetup, promptOpen, selectedAgent, input,
                   isLoading, isStreaming, tokenCount, submissions, turns>>

\* handleSignOut: auth.signOut() calls the listener with null, then the mapping is cleared
handleSignOut ==
    /\ ChatShown
    /\ authUser' = Null
    /\ user' = Null
    /\ isAuthLoading' = FALSE
    /\ chatHistories' = EmptyHistories
    /\ UNCHANGED <<fileVars, everSignedIn, listenerVars, pollVars, ragSources, storageVars, mounted, isInitialized, authSetup, promptOpen, selectedAgent, input,
                   isLoading, isStreaming, tokenCount, queryHistory, submissions, turns>>

\* ------------------------------------------------------- chat orchestration
\* what the chat log renders: chatHistories[selectedAgent] || []
currentChatHistory == historyOf(chatHistories, selectedAgent)

\* the isStreaming prop of the ChatBubble of message number index (from 1) of
\* the log: isStreaming && index === currentChatHistory.length - 1 && msg.role === 'assistant'
bubbleIsStreaming(index) ==
    isStreaming /\ index = Len(currentChatHistory) /\ currentChatHistory[index].role = "assistant"

\* AgentTabs: onSelectAgent
SelectAgent(a) ==
    /\ ChatShown /\ a # selectedAgent
    /\ selectedAgent' = a
    /\ UNCHANGED <<fileVars, everSignedIn, listenerVars, pollVars, ragSources, storageVars, mounted, authVars, chatHistories, input, isLoading, isStreaming,
                   tokenCount, queryHistory, submissions, turns>>

\* the chat input's onChange; the field is disabled while isLoading
SetInput(text) ==
    /\ ChatShown /\ ~isLoading /\ text # input
    /\ input' = text
    /\ UNCHANGED <<fileVars, everSignedIn, listenerVars, pollVars, ragSources, storageVars, mounted, authVars, selectedAgent, chatHistories, isLoading, isStreaming,
                   tokenCount, queryHistory, submissions, turns>>

\* a variant that also refuses a Submit once the displayed limit is reached
submitRejectedAtLimit == trim(input) = <<>> \/ isLoading \/ tokenCount >= TOTAL_TOKEN_LIMIT

\* a variant that tests the input without trimming it
submitRejectedUntrimmed == input = <<>> \/ isLoading

\* the guard of handleSendMessage: if (!input.trim() || isLoading) return
submitRejected == trim(input) = <<>> \/ isLoading

\* a variant that never drops an entry
recordQueryKeepingAll(prev, entry) == <<entry>> \o prev

\* setQueryHistory(prev => [historyEntry, ...prev.slice(0, 49)])
recordQuery(prev, entry) == <<entry>> \o SubSeq(prev, 1, IF Len(prev) < HISTORY_KEEP THEN Len(prev) ELSE HISTORY_KEEP)

\* { inlineData: { mimeType, data } } of an uploaded file
filePartOf(f) == [mimeType |-> f.file.mimeType, data |-> f.file.data]

\* a variant that also sends a file that is still processing
isReadyOrProcessing(f) == f.status # "uploading"

\* f.status === 'ready'
isReady(f) == f.status = "ready"

\* uploadedFiles.filter(f => f.status === 'ready').map(f => f.file), as parts
RECURSIVE readyFileParts(_)
readyFileParts(files) ==
    IF files = <<>> THEN <<>>
    ELSE (IF isReady(Head(files)) THEN <<filePartOf(Head(files))>> ELSE <<>>)
         \o readyFileParts(Tail(files))

\* a variant that names every source, enabled or not
enabledAll(sources, key) == TRUE

\* .filter(([, value]) => value)
enabled(sources, key) == sources[key]

\* Object.entries(ragSources).filter(([, value]) => value).map(([key]) => key).join(', ')
\* of the keys from position k on; first tells whether no key was written yet
RECURSIVE joinSelected(_, _, _)
joinSelected(sources, k, first) ==
    IF k > Len(RagSourceKeys) THEN <<>>
    ELSE IF enabled(sources, RagSourceKeys[k])
         THEN (IF first THEN <<>> ELSE <<", ">>) \o <<RagSourceKeys[k]>> \o joinSelected(sources, k + 1, FALSE)
         ELSE joinSelected(sources, k + 1, first)

\* `Using data from: [${selectedSources}].\n\n${currentInput}`
promptWithContext(sources, currentInput) ==
    <<"Using data from: [">> \o joinSelected(sources, 1, TRUE) \o <<"].", "\n\n">> \o currentInput

\* currentAgentHistory.map(msg => ({ role: ..., parts: [{ text: msg.content }] }))
historyForAPI(currentAgentHistory) ==
    [i \in 1..Len(currentAgentHistory) |->
        [role |-> IF currentAgentHistory[i].role = "assistant" THEN "model" ELSE "user",
         parts |-> <<[text |-> currentAgentHistory[i].content]>>]]

\* [...historyForAPI, { role: 'user', parts: [...fileParts, { text: promptWithContext }] }];
\* a file part is written as a mimeType and data pair, a text part as a text
inputContentsOf(currentAgentHistory, files, sources, currentInput) ==
    historyForAPI(currentAgentHistory)
        \o <<[role |-> "user",
              parts |-> [i \in 1..Len(readyFileParts(files)) |-> [inlineData |-> readyFileParts(files)[i]]]
                          \o <<[text |-> promptWithContext(sources, currentInput)]>>]>>

\* RagSourceSelector: the checkbox of a source is clicked
ToggleRagSource(key) ==
    /\ ChatShown
    /\ ragSources' = [ragSources EXCEPT ![key] = ~@]
    /\ UNCHANGED <<mounted, authVars, chatVars, fileVars, everSignedIn, listenerVars, pollVars, storageVars>>

FreeTurns == {t \in TurnIds : turns[t].pc = "unused"}

\* handleSendMessage up to its first await: the form's onSubmit
handleSendMessage ==
    /\ ChatShown
    /\ IF submitRejected
       THEN UNCHANGED vars
       ELSE /\ FreeTurns # {}
            /\ submissions < MaxQueries
            /\ submissions' = submissions + 1
            /\ LET t == CHOOSE x \in FreeTurns : \A y \in FreeTurns : x <= y
                   currentAgentHistory == historyOf(chatHistories, selectedAgent)
               IN /\ input' = <<>>
                  /\ queryHistory' = recordQuery(queryHistory,
                                        [id |-> submissions + 1, query |-> trim(input),
                                         agent |-> AgentName(selectedAgent)])
                  /\ chatHistories' = withHistory(chatHistories, selectedAgent,
                                        Append(currentAgentHistory, userMessageOf(input)))
                  /\ isLoading' = TRUE
                  /\ turns' = [turns EXCEPT ![t] = [pc |-> "countInput", agent |-> selectedAgent,
                                                    firstChunk |-> TRUE, fullResponse |-> <<>>,
                                                    chunks |-> 0,
                                                    fileParts |-> readyFileParts(uploadedFiles),
                                                    inputContents |->
                                                        inputContentsOf(currentAgentHistory, uploadedFiles,
                                                                        ragSources, input)]]
            /\ UNCHANGED <<fileVars, everSignedIn, listenerVars, pollVars, ragSources, storageVars, mounted, authVars, selectedAgent, isStreaming, tokenCount>>

\* a variant that forgets the messages already in the sequence
catchHistoriesReplacing(h, a) == withHistory(h, a, <<errorMessageOf(a)>>)

\* catch: the fallback message is appended under the captured agent
catchHistories(h, a) == withHistory(h, a, Append(historyOf(h, a), errorMessageOf(a)))

\* a variant that charges a token for the failed turn's output
ErrorOutcomeCounting(t) ==
    /\ chatHistories' = withHistory(chatHistories, turns[t].agent,
                            Append(historyOf(chatHistories, turns[t].agent), errorMessageOf(turns[t].agent)))
    /\ isLoading' = FALSE
    /\ isStreaming' = FALSE
    /\ tokenCount' = tokenCount + 1
    /\ turns' = [turns EXCEPT ![t] = [pc |-> "failed", agent |-> turns[t].agent, firstChunk |-> TRUE,
                                      fullResponse |-> <<>>, chunks |-> 0, fileParts |-> <<>>,
                                      inputContents |-> <<>>]]
    /\ UNCHANGED <<fileVars, everSignedIn, listenerVars, pollVars, ragSources, storageVars, mounted, authVars, selectedAgent, input, queryHistory, submissions>>

\* catch and finally of handleSendMessage, run by the turn t that threw
ErrorOutcome(t) ==
    /\ chatHistories' = catchHistories(chatHistories, turns[t].agent)
    /\ isLoading' = FALSE
    /\ isStreaming' = FALSE
    /\ turns' = [turns EXCEPT ![t] = EndedTurn("failed", turns[t].agent)]
    /\ UNCHANGED <<fileVars, everSignedIn, listenerVars, pollVars, ragSources, storageVars, mounted, authVars, selectedAgent, input, tokenCount, queryHistory, submissions>>

\* a variant that stores the last count instead of adding it
addTokensOverwriting(prev, n) == n

\* setTokenCount(prev => prev + n)
addTokens(prev, n) == prev + n

\* await ai.models.countTokens(inputContents) resolved with n
CountInputTokens(t, n) ==
    /\ mounted /\ turns[t].pc = "countInput"
    /\ tokenCount' = addTokens(tokenCount, n)
    /\ turns' = [turns EXCEPT ![t].pc = "openStream"]
    /\ UNCHANGED <<fileVars, everSignedIn, listenerVars, pollVars, ragSources, storageVars, mounted, authVars, selectedAgent, chatHistories, input, isLoading,
                   isStreaming, queryHistory, submissions>>

\* a variant that reports the error and goes on to request the stream
CountInputTokensFailsThenStreams(t) ==
    /\ mounted /\ turns[t].pc = "countInput"
    /\ chatHistories' = catchHistories(chatHistories, turns[t].agent)
    /\ turns' = [turns EXCEPT ![t].pc = "openStream"]
    /\ UNCHANGED <<fileVars, everSignedIn, listenerVars, pollVars, ragSources, storageVars, mounted, authVars, selectedAgent, input, isLoading, isStreaming,
                   tokenCount, queryHistory, submissions>>

\* await ai.models.countTokens(inputContents) rejected
CountInputTokensFails(t) ==
    /\ mounted /\ turns[t].pc = "countInput"
    /\ ErrorOutcome(t)

\* await ai.models.generateContentStream(...) resolved; the request was the
\* last use of inputContents
OpenStream(t) ==
    /\ mounted /\ turns[t].pc = "openStream"
    /\ isLoading' = FALSE
    /\ isStreaming' = TRUE
    /\ turns' = [turns EXCEPT ![t].pc = "streaming", ![t].inputContents = <<>>]
    /\ UNCHANGED <<fileVars, everSignedIn, listenerVars, pollVars, ragSources, storageVars, mounted, authVars, selectedAgent, chatHistories, input, tokenCount,
                   queryHistory, submissions>>

\* await ai.models.generateContentStream(...) rejected
OpenStreamFails(t) ==
    /\ mounted /\ turns[t].pc = "openStream"
    /\ ErrorOutcome(t)

\* a variant that writes to the agent selected when the chunk arrives
appendAssistantToSelected(h, a, chunkText) ==
    withHistory(h, selectedAgent, Append(historyOf(h, selectedAgent), assistantMessageOf(a, chunkText)))

\* the updater of a first chunk: a new assistant message at the tail
appendAssistant(h, a, chunkText) ==
    withHistory(h, a, Append(historyOf(h, a), assistantMessageOf(a, chunkText)))

\* the updater of a later chunk: the last message of the agent's sequence is
\* replaced by a copy whose content is extended
extendLast(h, a, chunkText) ==
    LET agentHistory == historyOf(h, a)
        lastMessage == agentHistory[Len(agentHistory)]
    IN withHistory(h, a, Append(SubSeq(agentHistory, 1, Len(agentHistory) - 1),
                                [lastMessage EXCEPT !.content = lastMessage.content \o chunkText]))

\* a variant that takes every chunk for a text
truthyAlways(chunkText) == TRUE

\* if (chunkText): the empty string is falsy
truthy(chunkText) == chunkText # <<>>

\* one iteration of for await (const chunk of responseStream).  A later chunk
\* whose updater finds no last message reads .content of undefined: the
\* updater throws while React renders and the root is unmounted.
StreamChunk(t, chunkText) ==
    /\ mounted /\ turns[t].pc = "streaming" /\ turns[t].chunks < MaxChunks
    /\ LET a == turns[t].agent IN
       IF ~truthy(chunkText)
       THEN /\ turns' = [turns EXCEPT ![t].chunks = @ + 1]
            /\ UNCHANGED <<mounted, chatHistories>>
       ELSE IF turns[t].firstChunk
       THEN /\ chatHistories' = appendAssistant(chatHistories, a, chunkText)
            /\ turns' = [turns EXCEPT ![t].chunks = @ + 1, ![t].firstChunk = FALSE,
                                      ![t].fullResponse = @ \o chunkText]
            /\ UNCHANGED mounted
       ELSE IF historyOf(chatHistories, a) = <<>>
       THEN /\ mounted' = FALSE
            /\ UNCHANGED <<chatHistories, turns>>
       ELSE /\ chatHistories' = extendLast(chatHistories, a, chunkText)
            /\ turns' = [turns EXCEPT ![t].chunks = @ + 1, ![t].fullResponse = @ \o chunkText]
            /\ UNCHANGED mounted
    /\ UNCHANGED <<fileVars, everSignedIn, listenerVars, pollVars, ragSources, storageVars, authVars, selectedAgent, input, isLoading, isStreaming,
                   tokenCount, queryHistory, submissions>>

\* the stream's iterator threw
StreamFails(t) ==
    /\ mounted /\ turns[t].pc = "streaming"
    /\ ErrorOutcome(t)

\* the stream ended: setIsStreaming(false), then the output count is requested
StreamEnds(t) ==
    /\ mounted /\ turns[t].pc = "streaming"
    /\ isStreaming' = FALSE
    /\ turns' = [turns EXCEPT ![t].pc = "countOutput"]
    /\ UNCHANGED <<fileVars, everSignedIn, listenerVars, pollVars, ragSources, storageVars, mounted, authVars, selectedAgent, chatHistories, input, isLoading,
                   tokenCount, queryHistory, submissions>>

\* await ai.models.countTokens(fullResponse) resolved with n, then finally
CountOutputTokens(t, n) ==
    /\ mounted /\ turns[t].pc = "countOutput"
    /\ tokenCount' = addTokens(tokenCount, n)
    /\ isLoading' = FALSE
    /\ isStreaming' = FALSE
    /\ turns' = [turns EXCEPT ![t] = EndedTurn("done", turns[t].agent)]
    /\ UNCHANGED <<fileVars, everSignedIn, listenerVars, pollVars, ragSources, storageVars, mounted, authVars, selectedAgent, chatHistories, input, queryHistory, submissions>>

\* await ai.models.countTokens(fullResponse) rejected
CountOutputTokensFails(t) ==
    /\ mounted /\ turns[t].pc = "countOutput"
    /\ ErrorOutcome(t)

ChatNext ==
    \/ \E a \in Selectable : SelectAgent(a)
    \/ \E text \in Inputs : SetInput(text)
    \/ handleSendMessage
    \/ \E t \in TurnIds, n \in TokenCounts : CountInputTokens(t, n)
    \/ \E t \in TurnIds : CountInputTokensFails(t)
    \/ \E t \in TurnIds : OpenStream(t)
    \/ \E t \in TurnIds : OpenStreamFails(t)
    \/ \E t \in TurnIds : \E c \in ChunkTexts(turns[t].chunks + 1) : StreamChunk(t, c)
    \/ \E t \in TurnIds : StreamFails(t)
    \/ \E t \in TurnIds : StreamEnds(t)
    \/ \E t \in TurnIds, n \in TokenCounts : CountOutputTokens(t, n)
    \/ \E t \in TurnIds : CountOutputTokensFails(t)

\* a guest session: the Google script does not load, the provider falls back
\* and every sign-in is a guest sign-in
SessionNext ==
    \/ SetupFallbackAuth
    \/ \E n \in GuestNames : SignInAsGuest(n)
    \/ handleSignOut

Next == SessionNext \/ ChatNext

Spec == Init /\ [][Next]_vars

\* sign-in through either path of the login screen
AuthNext ==
    \/ SetupGoogleAuth
    \/ SetupFallbackAuth
    \/ AuthTimeout
    \/ \E n \in GuestNames : SignInAsGuest(n)
    \/ GoogleSignIn
    \/ \E payloadName \in GoogleNames : CredentialResponse(payloadName)
    \/ handleSignOut

\* the login flow with the chat screen's agent tabs and input field; no turn
\* can start before the first sign-in
AuthSpecNext ==
    \/ AuthNext
    \/ \E a \in AgentRole : SelectAgent(a)
    \/ \E text \in Inputs : SetInput(text)

AuthSpec == Init /\ [][AuthSpecNext]_vars

\* the login flow with its timers running: the script polling of the provider
\* ends (with the script or without it) and a pending 10 second timer fires
AuthLiveSpec ==
    /\ Init
    /\ [][AuthSpecNext]_vars
    /\ WF_vars(SetupGoogleAuth \/ SetupFallbackAuth)
    /\ WF_vars(AuthTimeout)

\* a turn that returned leaves nothing behind: its record can serve the next
\* invocation of handleSendMessage
ForgetTurn(t) ==
    /\ mounted /\ turns[t].pc \in {"done", "failed"}
    /\ turns' = [turns EXCEPT ![t] = UnusedTurn]
    /\ UNCHANGED <<fileVars, everSignedIn, listenerVars, pollVars, ragSources, storageVars, mounted, authVars, selectedAgent, chatHistories, input, isLoading,
                   isStreaming, tokenCount, queryHistory, submissions>>

\* long sessions of one user: submissions, accepted or not, whose input token
\* count fails
HistorySpecNext ==
    \/ SetupFallbackAuth
    \/ SignInAsGuest("Ann")
    \/ handleSignOut
    \/ \E text \in Inputs \cup BlankInputs : SetInput(text)
    \/ handleSendMessage
    \/ \E t \in TurnIds : CountInputTokensFails(t)
    \/ \E t \in TurnIds : ForgetTurn(t)

HistorySpec == Init /\ [][HistorySpecNext]_vars

\* long sessions of one user whose requests are large: the input count of every
\* turn is added and the stream request then fails
TokenSpecNext ==
    \/ SetupFallbackAuth
    \/ SignInAsGuest("Ann")
    \/ \E text \in Inputs : SetInput(text)
    \/ handleSendMessage
    \/ \E t \in TurnIds, n \in LargeTokenCounts : CountInputTokens(t, n)
    \/ \E t \in TurnIds : OpenStreamFails(t)
    \/ \E t \in TurnIds : ForgetTurn(t)

TokenSpec == Init /\ [][TokenSpecNext]_vars

\* ------------------------------------------------------- file ingestion
\* a variant that also rejects a selection that fills the list exactly
overLimitAtFull(existingCount, n) == existingCount + n >= MAX_FILES

\* uploadedFiles.length + filesToUpload.length > MAX_FILES
overLimit(existingCount, n) == existingCount + n > MAX_FILES

\* a variant that also skips a file of exactly the limit
oversizedAtLimit(file) == file.size >= MAX_FILE_SIZE_BYTES

\* file.size > MAX_FILE_SIZE_BYTES
oversized(file) == file.size > MAX_FILE_SIZE_BYTES

\* what processFile resolves with when the reader loaded the file
loadedFile(file) ==
    [file |-> [name |-> file.name,
               mimeType |-> IF file.type = "" THEN "application/octet-stream" ELSE file.type,
               data |-> <<"base64 of ", file.name>>],
     status |-> "uploading", progress |-> 0]

\* the fileError the synchronous part of processFile leaves: the message of the
\* last oversized file, if any
RECURSIVE sizeErrors(_, _)
sizeErrors(files, err) ==
    IF files = <<>> THEN err
    ELSE sizeErrors(Tail(files), IF oversized(Head(files)) THEN SizeError(Head(files).name) ELSE err)

\* the promises of a selection right after filesToUpload.map(processFile):
\* "null" for an oversized file, "reading" while the FileReader works
startedReads(files) == [i \in 1..Len(files) |-> IF oversized(files[i]) THEN "null" ELSE "reading"]

\* (await Promise.all(newFilesPromises)).filter(f => f !== null)
RECURSIVE loadedFiles(_, _)
loadedFiles(files, results) ==
    IF files = <<>> THEN <<>>
    ELSE (IF Head(results) = "loaded" THEN <<loadedFile(Head(files))>> ELSE <<>>)
         \o loadedFiles(Tail(files), Tail(results))

\* the selections whose 1000 ms timeouts are still pending: a chain started now
\* has its own 1000 ms timeout due before their 1500 ms timeouts
pendingUploads == {timers[j].batch : j \in {i \in 1..Len(timers) : timers[i].phase = "interval"}}

\* newFiles.forEach((_, index) => ...): one interval and timeout chain per new
\* file, aimed at the position currentFileCount + index (counted from 0)
startedTimers(id, currentFileCount, n) ==
    [index \in 1..n |-> [batch |-> id, index |-> index, fileIndex |-> currentFileCount + (index - 1),
                         phase |-> "interval", ticks |-> 0, elders |-> pendingUploads]]

\* history: every new entry is marked with the selection it came from and its
\* place among that selection's new files, which is also what the timers
\* started for it are marked with
originsOf(id, newFiles) ==
    [index \in 1..Len(newFiles) |->
        [file |-> newFiles[index].file, status |-> newFiles[index].status,
         progress |-> newFiles[index].progress, origin |-> [batch |-> id, index |-> index]]]

\* the continuation of handleFileChange after await Promise.all
joinBatch(id, files, results, currentFileCount) ==
    LET newFiles == originsOf(id, loadedFiles(files, results))
    IN /\ uploadedFiles' = uploadedFiles \o newFiles
       /\ timers' = timers \o startedTimers(id, currentFileCount, Len(newFiles))

\* handleFileChange up to await Promise.all; a selection none of whose files is
\* read resolves at once and the continuation runs before any other event
handleFileChange(files) ==
    /\ ChatShown
    /\ selections < MaxBatches
    /\ selections' = selections + 1
    /\ IF overLimit(Len(uploadedFiles), Len(files))
       THEN /\ fileError' = MaxFilesError
            /\ UNCHANGED <<uploadedFiles, batches, timers>>
       ELSE /\ fileError' = sizeErrors(files, NoError)
            /\ IF \A i \in 1..Len(files) : oversized(files[i])
               THEN /\ joinBatch(selections + 1, files, startedReads(files), Len(uploadedFiles))
                    /\ UNCHANGED batches
               ELSE /\ batches' = Append(batches, [id |-> selections + 1, files |-> files,
                                                   results |-> startedReads(files),
                                                   currentFileCount |-> Len(uploadedFiles)])
                    /\ UNCHANGED <<uploadedFiles, timers>>
    /\ UNCHANGED <<everSignedIn, listenerVars, pollVars, ragSources, storageVars, mounted, authVars, chatVars>>

Without(seq, k) == SubSeq(seq, 1, k - 1) \o SubSeq(seq, k + 1, Len(seq))

\* reader.onload (ok) or reader.onerror of file i of the pending selection b; the
\* last promise to resolve lets the continuation of handleFileChange run
FileRead(b, i, ok) ==
    /\ mounted
    /\ b \in 1..Len(batches)
    /\ i \in 1..Len(batches[b].files)
    /\ batches[b].results[i] = "reading"
    /\ LET results == [batches[b].results EXCEPT ![i] = IF ok THEN "loaded" ELSE "null"]
       IN /\ fileError' = IF ok THEN fileError ELSE ReadError(batches[b].files[i].name)
          /\ IF \E j \in 1..Len(results) : results[j] = "reading"
             THEN /\ batches' = [batches EXCEPT ![b].results = results]
                  /\ UNCHANGED <<uploadedFiles, timers>>
             ELSE /\ batches' = Without(batches, b)
                  /\ joinBatch(batches[b].id, batches[b].files, results, batches[b].currentFileCount)
    /\ UNCHANGED <<selections, everSignedIn, listenerVars, pollVars, ragSources, storageVars, mounted, authVars, chatVars>>

\* the changes the timers make to the entry at their position
tickOf(f) == IF f.progress < 100 THEN [f EXCEPT !.progress = f.progress + 10] ELSE f
processingOf(f) == [f EXCEPT !.status = "processing", !.progress = 100]
readyOf(f) == [f EXCEPT !.status = "ready"]

\* one firing of the 100 ms upload interval of timer chain k
IntervalTick(k) ==
    /\ mounted
    /\ k \in 1..Len(timers)
    /\ timers[k].phase = "interval" /\ timers[k].ticks < MaxTicks
    /\ uploadedFiles' = [i \in 1..Len(uploadedFiles) |->
                           IF i - 1 = timers[k].fileIndex THEN tickOf(uploadedFiles[i]) ELSE uploadedFiles[i]]
    /\ timers' = [timers EXCEPT ![k].ticks = @ + 1]
    /\ UNCHANGED <<fileError, batches, selections, everSignedIn, listenerVars, pollVars, ragSources, storageVars, mounted, authVars, chatVars>>

\* the 1000 ms timeout of chain k: the interval is cleared, the file at the
\* chain's position becomes processing.  timers is in order of creation, and a
\* timeout of the same delay that was set earlier is due earlier.
UploadTimeout(k) ==
    /\ mounted
    /\ k \in 1..Len(timers)
    /\ timers[k].phase = "interval"
    /\ \A j \in 1..(k - 1) : timers[j].phase # "interval"
    /\ uploadedFiles' = [i \in 1..Len(uploadedFiles) |->
                           IF i - 1 = timers[k].fileIndex THEN processingOf(uploadedFiles[i]) ELSE uploadedFiles[i]]
    /\ timers' = [timers EXCEPT ![k].phase = "settle"]
    /\ UNCHANGED <<fileError, batches, selections, everSignedIn, listenerVars, pollVars, ragSources, storageVars, mounted, authVars, chatVars>>

\* the 1500 ms timeout of chain k: the file at the chain's position becomes
\* ready.  It is due after the 1000 ms timeouts of the chains started with it
\* and of the chains started before its own 1000 ms timeout fired.
ReadyTimeout(k) ==
    /\ mounted
    /\ k \in 1..Len(timers)
    /\ timers[k].phase = "settle"
    /\ k = 1
    /\ \A j \in 1..Len(timers) : timers[j].batch = timers[k].batch => timers[j].phase # "interval"
    /\ \A j \in 1..Len(timers) : timers[j].phase = "interval" => timers[k].batch \notin timers[j].elders
    /\ uploadedFiles' = [i \in 1..Len(uploadedFiles) |->
                           IF i - 1 = timers[k].fileIndex THEN readyOf(uploadedFiles[i]) ELSE uploadedFiles[i]]
    /\ timers' = Without(timers, k)
    /\ UNCHANGED <<fileError, batches, selections, everSignedIn, listenerVars, pollVars, ragSources, storageVars, mounted, authVars, chatVars>>

\* the remove button of entry index (counted from 0): files.filter((_, i) => i !== index)
RemoveFile(index) ==
    /\ ChatShown
    /\ index \in 0..(Len(uploadedFiles) - 1)
    /\ uploadedFiles' = Without(uploadedFiles, index + 1)
    /\ UNCHANGED <<fileError, batches, timers, selections, everSignedIn, listenerVars, pollVars, ragSources, storageVars, mounted, authVars, chatVars>>

FileNext ==
    \/ \E files \in FileSelections : handleFileChange(files)
    \/ \E b \in 1..Len(batches) : \E i \in 1..Len(batches[b].files) : \E ok \in BOOLEAN : FileRead(b, i, ok)
    \/ \E k \in 1..Len(timers) : IntervalTick(k)
    \/ \E k \in 1..Len(timers) : UploadTimeout(k)
    \/ \E k \in 1..Len(timers) : ReadyTimeout(k)
    \/ \E index \in 0..(Len(uploadedFiles) - 1) : RemoveFile(index)



\* sessions that end with a sign-out and are followed by another sign-in, after
\* the agent and a source were changed and turns were counted
SignOutSpecNext ==
    \/ SetupFallbackAuth
    \/ \E n \in GuestNames : SignInAsGuest(n)
    \/ handleSignOut
    \/ ToggleRagSource("sensors")
    \/ \E a \in Selectable : SelectAgent(a)
    \/ \E text \in Inputs : SetInput(text)
    \/ handleSendMessage
    \/ \E t \in TurnIds, n \in TokenCounts : CountInputTokens(t, n)
    \/ \E t \in TurnIds : OpenStreamFails(t)

SignOutSpec == Init /\ [][SignOutSpecNext]_vars

\* the file pipeline of a guest session
FileSpecNext == SessionNext \/ FileNext

FileSpec == Init /\ [][FileSpecNext]_vars

\* selections of three readable files
LargeSelections == {<<SmallFile, LimitFile, SmallFile>>}

\* selections made while earlier selections are still being read; the timers
\* are started but do not fire within the reads
OverlapSpecNext ==
    \/ SetupFallbackAuth
    \/ SignInAsGuest("Ann")
    \/ \E files \in LargeSelections : handleFileChange(files)
    \/ \E b \in 1..Len(batches) : \E i \in 1..Len(batches[b].files) : \E ok \in BOOLEAN : FileRead(b, i, ok)

OverlapSpec == Init /\ [][OverlapSpecNext]_vars

\* the file pipeline with one-file selections
TimerSpecNext ==
    \/ SetupFallbackAuth
    \/ SignInAsGuest("Ann")
    \/ handleFileChange(<<SmallFile>>)
    \/ \E b \in 1..Len(batches) : \E ok \in BOOLEAN : FileRead(b, 1, ok)
    \/ \E k \in 1..Len(timers) : IntervalTick(k)
    \/ \E k \in 1..Len(timers) : UploadTimeout(k)
    \/ \E k \in 1..Len(timers) : ReadyTimeout(k)
    \/ \E index \in 0..(Len(uploadedFiles) - 1) : RemoveFile(index)

\* setTimeout callbacks that are due are run by the event loop: a timeout that
\* stays due fires.  Nothing obliges the user to select or remove files, and a
\* read may take arbitrarily long.
TimerLiveSpec ==
    /\ Init /\ [][TimerSpecNext]_vars
    /\ WF_vars(\E k \in 1..Len(timers) : UploadTimeout(k))
    /\ WF_vars(\E k \in 1..Len(timers) : ReadyTimeout(k))

\* submissions of one user while files are selected, uploaded and removed; the
\* input token count of every turn fails
RequestSpecNext ==
    \/ SetupFallbackAuth
    \/ SignInAsGuest("Ann")
    \/ FileNext
    \/ \E text \in Inputs : SetInput(text)
    \/ handleSendMessage
    \/ \E t \in TurnIds : CountInputTokensFails(t)

RequestSpec == Init /\ [][RequestSpecNext]_vars

\* submissions of one user who switches the data sources and attaches files one
\* by one; the input token count of every turn fails
PromptSpecNext ==
    \/ SetupFallbackAuth
    \/ SignInAsGuest("Ann")
    \/ \E key \in DOMAIN InitialRagSources : ToggleRagSource(key)
    \/ handleFileChange(<<SmallFile>>)
    \/ \E b \in 1..Len(batches) : FileRead(b, 1, TRUE)
    \/ \E k \in 1..Len(timers) : UploadTimeout(k)
    \/ \E k \in 1..Len(timers) : ReadyTimeout(k)
    \/ \E text \in Inputs : SetInput(text)
    \/ handleSendMessage
    \/ \E t \in TurnIds : CountInputTokensFails(t)

PromptSpec == Init /\ [][PromptSpecNext]_vars

\* ------------------------------------------------- the provider's listeners
\* the functions clients pass to onAuthStateChanged: two that only take the
\* value, and one that calls its own unsubscribe handle when it is called
Callbacks == {"f", "g", "once"}

selfUnsubscribing(callback) == callback = "once"

\* this.listeners.indexOf(callback), counted from 1; 0 when absent
indexOf(seq, callback) ==
    IF \E i \in 1..Len(seq) : seq[i] = callback
    THEN CHOOSE i \in 1..Len(seq) : seq[i] = callback /\ \A j \in 1..(i - 1) : seq[j] # callback
    ELSE 0

\* the unsubscribe function: index > -1 ? splice(index, 1) : nothing
spliceFirst(seq, callback) ==
    IF indexOf(seq, callback) = 0 THEN seq ELSE Without(seq, indexOf(seq, callback))

\* history: the first registration of the callback whose handle was not called is marked
markFirst(s, callback) ==
    LET open == {i \in 1..Len(s) : s[i].callback = callback /\ s[i].live}
    IN IF open = {} THEN s
       ELSE [s EXCEPT ![CHOOSE i \in open : \A j \in open : i <= j].live = FALSE]

\* this.listeners.forEach(listener => listener(value)) from position k on:
\* forEach visits the positions below the length the array had at the start
\* that still exist, and an unsubscribe inside a callback shifts the array
RECURSIVE forEachListener(_, _, _, _)
forEachListener(st, k, len0, value) ==
    IF k > len0 \/ k > Len(st.listeners) THEN st
    ELSE LET callback == st.listeners[k]
             called == [st EXCEPT !.notified = Append(@, [callback |-> callback, value |-> value])]
             after == IF selfUnsubscribing(callback)
                      THEN [called EXCEPT !.listeners = spliceFirst(@, callback),
                                          !.subs = markFirst(@, callback)]
                      ELSE called
         IN forEachListener(after, k + 1, len0, value)

notifyListeners(value) ==
    LET st == forEachListener([listeners |-> listeners, subs |-> subs, notified |-> <<>>],
                              1, Len(listeners), value)
    IN /\ listeners' = st.listeners
       /\ subs' = st.subs
       /\ notified' = st.notified

providerFrame == UNCHANGED <<mounted, isInitialized, authSetup, promptOpen, user, isAuthLoading,
                             chatVars, fileVars, everSignedIn, ragSources, storageVars, pollVars>>

\* auth.onAuthStateChanged(callback)
onAuthStateChanged(callback) ==
    /\ Len(subs) < MaxSubscriptions
    /\ listeners' = Append(listeners, callback)
    /\ subs' = Append(subs, [callback |-> callback, live |-> TRUE])
    /\ UNCHANGED <<authUser, notified>>
    /\ providerFrame

\* a call of the function the s-th onAuthStateChanged call returned
unsubscribe(s) ==
    /\ s \in 1..Len(subs)
    /\ listeners' = spliceFirst(listeners, subs[s].callback)
    /\ subs' = [subs EXCEPT ![s].live = FALSE]
    /\ UNCHANGED <<authUser, notified>>
    /\ providerFrame

\* auth.signInAsGuest(customName)
signInAsGuest(customName) ==
    /\ authUser' = GuestUser(customName)
    /\ notifyListeners(authUser')
    /\ providerFrame

\* auth.handleCredentialResponse(response) with a decodable credential
handleCredentialResponse(payloadName) ==
    /\ isInitialized
    /\ authUser' = GoogleUserOf(payloadName)
    /\ notifyListeners(authUser')
    /\ providerFrame

\* auth.signOut()
signOut ==
    /\ authUser' = Null
    /\ notifyListeners(Null)
    /\ providerFrame

\* auth.getCurrentUser()
getCurrentUser == authUser

\* waitForGoogleScript: const maxAttempts = 50
maxAttempts == 50

\* alert('Google sign-in failed. Please try guest mode instead.')
SignInFailedAlert == <<"Google sign-in failed. Please try guest mode instead.">>

\* new Error('Google OAuth is not available. Please use guest mode.')
NotAvailableError == <<"Google OAuth is not available. Please use guest mode.">>

\* the error window.google.accounts.id.prompt throws, which signIn throws again
PromptError == <<"prompt error">>

\* the responses handleCredentialResponse does not accept: one without a
\* credential, and one whose credential JSON.parse(atob(...)) cannot decode
RejectedResponses == {"no credential", "undecodable"}

\* setupFallbackAuth of the provider: this.listeners.forEach(listener => listener(null))
setupFallbackAuth ==
    /\ authSetup' = "done"
    /\ notifyListeners(Null)
    /\ UNCHANGED isInitialized

\* setupGoogleAuth once the script is there: initialize succeeds, or throws
\* and the fallback is set up
setupGoogleAuth(initializes) ==
    IF initializes
    THEN /\ authSetup' = "done"
         /\ isInitialized' = TRUE
         /\ UNCHANGED listenerVars
    ELSE setupFallbackAuth

\* one run of checkGoogle in waitForGoogleScript, with what initializeAuth does
\* when the promise settles: the script is there (resolve), the attempts are
\* used up (reject), or the check is scheduled again in 100 ms
checkGoogle(available, initializes) ==
    /\ authSetup = "waiting"
    /\ attempts' = attempts + 1
    /\ IF available
       THEN setupGoogleAuth(initializes)
       ELSE IF attempts' >= maxAttempts
            THEN setupFallbackAuth
            ELSE UNCHANGED <<authSetup, isInitialized, listenerVars>>
    /\ UNCHANGED <<mounted, authUser, promptOpen, user, isAuthLoading, chatVars, fileVars,
                   everSignedIn, ragSources, storageVars, lastError>>

\* this.user after handleCredentialResponse returned early or caught the error
rejectedUser == authUser

\* auth.handleCredentialResponse(response) with a response it does not accept:
\* the alert is shown, and the method returns (line 90) or has caught the
\* error of line 94 before this.user is assigned
rejectedCredentialResponse(response) ==
    /\ isInitialized
    /\ response \in RejectedResponses
    /\ lastError' = SignInFailedAlert
    /\ authUser' = rejectedUser
    /\ UNCHANGED <<mounted, isInitialized, authSetup, promptOpen, user, isAuthLoading, chatVars, fileVars,
                   everSignedIn, listenerVars, ragSources, storageVars, attempts>>

\* auth.signIn(): throws before initialization; otherwise the prompt is opened,
\* and an error of prompt is thrown again
signIn(prompts) ==
    /\ IF ~isInitialized
       THEN /\ lastError' = NotAvailableError
            /\ UNCHANGED promptOpen
       ELSE IF prompts
            THEN /\ promptOpen' = TRUE
                 /\ UNCHANGED lastError
            ELSE /\ lastError' = PromptError
                 /\ UNCHANGED promptOpen
    /\ UNCHANGED <<mounted, authUser, isInitialized, authSetup, user, isAuthLoading, chatVars, fileVars,
                   everSignedIn, listenerVars, ragSources, storageVars, attempts>>

\* the provider and its subscribers, in a page whose React root is not created
ProviderInit == mounted = FALSE /\ InitialValues

ProviderNext ==
    \/ SetupGoogleAuth
    \/ \E callback \in Callbacks : onAuthStateChanged(callback)
    \/ \E s \in 1..MaxSubscriptions : unsubscribe(s)
    \/ \E customName \in GuestNames : signInAsGuest(customName)
    \/ \E payloadName \in GoogleNames : handleCredentialResponse(payloadName)
    \/ signOut

ProviderSpec == ProviderInit /\ [][ProviderNext]_vars

\* the provider while the script is polled for, and its sign-in calls
PollNext ==
    \/ \E available \in BOOLEAN : \E initializes \in BOOLEAN : checkGoogle(available, initializes)
    \/ \E callback \in Callbacks : onAuthStateChanged(callback)
    \/ \E response \in RejectedResponses : rejectedCredentialResponse(response)
    \/ \E prompts \in BOOLEAN : signIn(prompts)
    \/ \E customName \in GuestNames : signInAsGuest(customName)
    \/ \E payloadName \in GoogleNames : handleCredentialResponse(payloadName)

PollSpec == ProviderInit /\ [][PollNext]_vars

\* ------------------------------------------------ conversation persistence
\* class ConversationStorage of src/index-new.tsx, read as the calls on
\* window.localStorage it makes.  Keys are texts cut at their underscores.
storage_key_prefix == <<"agenticone", "_", "conversation", "_">>
user_key_prefix == <<"agenticone", "_", "user", "_">>

\* the text of an agent role, cut at its underscore
RoleText(a) ==
    CASE a = "METHODS_SPECIALIST" -> <<"METHODS", "_", "SPECIALIST">>
      [] a = "CORROSION_ENGINEER" -> <<"CORROSION", "_", "ENGINEER">>
      [] a = "SUBSEA_ENGINEER" -> <<"SUBSEA", "_", "ENGINEER">>
      [] a = "DISCIPLINE_HEAD" -> <<"DISCIPLINE", "_", "HEAD">>

\* a variant that keeps one item per user, whatever the role
storage_key_per_user(user_email, agent_role) == storage_key_prefix \o user_email \o <<"_">>

\* f"{self.storage_key_prefix}{user_email}_{agent_role}"
storage_key(user_email, agent_role) == storage_key_prefix \o user_email \o <<"_">> \o RoleText(agent_role)

\* f"{self.user_key_prefix}{user_email}"
user_key(user_email) == user_key_prefix \o user_email

\* key.startswith(prefix)
startswith(key, prefix) == Len(prefix) <= Len(key) /\ SubSeq(key, 1, Len(prefix)) = prefix

\* JSON.stringify of a message list: a property whose value is undefined is left out
stringify(messages) ==
    [i \in 1..Len(messages) |->
        IF messages[i].agentId = "undefined"
        THEN [role |-> messages[i].role, content |-> messages[i].content]
        ELSE messages[i]]

\* JSON.parse of a message list: a property that is left out reads as undefined
parse(text) ==
    [i \in 1..Len(text) |->
        IF "agentId" \in DOMAIN text[i] THEN text[i]
        ELSE [role |-> text[i].role, content |-> text[i].content, agentId |-> "undefined"]]

\* window.localStorage.setItem(key, value)
setItem(store, key, value) == [k \in (DOMAIN store) \cup {key} |-> IF k = key THEN value ELSE store[k]]

\* window.localStorage.removeItem for every key of a set
removeItems(store, keys) == [k \in (DOMAIN store) \ keys |-> store[k]]

\* the conversations messages are saved from
Conversations ==
    {<<>>,
     <<userMessageOf(<<"q">>)>>,
     <<welcomeOf("METHODS_SPECIALIST", GuestUser("Ann")), userMessageOf(<<"q">>)>>}

\* save_conversation_to_local(user_email, agent_role, messages)
save_conversation_to_local(user_email, agent_role, messages) ==
    /\ saves < MaxSaves
    /\ saves' = saves + 1
    /\ localStorage' = setItem(localStorage, storage_key(user_email, agent_role),
                               [user_email |-> user_email, agent_role |-> agent_role,
                                messages |-> stringify(messages), message_count |-> Len(messages)])
    /\ latest' = [latest EXCEPT ![<<user_email, agent_role>>] = <<messages>>]
    /\ UNCHANGED <<mounted, authVars, chatVars, fileVars, everSignedIn, listenerVars, pollVars, ragSources>>

\* load_conversation_from_local(user_email, agent_role): Optional is written as
\* a sequence that is empty for None and holds the list otherwise
load_conversation_from_local(user_email, agent_role) ==
    IF storage_key(user_email, agent_role) \in DOMAIN localStorage
    THEN <<parse(localStorage[storage_key(user_email, agent_role)].messages)>>
    ELSE <<>>

\* save_user_session(user_email, ...)
save_user_session(user_email) ==
    /\ saves < MaxSaves
    /\ saves' = saves + 1
    /\ localStorage' = setItem(localStorage, user_key(user_email),
                               [user_email |-> user_email, selected_agent |-> selectedAgent,
                                rag_sources |-> ragSources])
    /\ UNCHANGED latest
    /\ UNCHANGED <<mounted, authVars, chatVars, fileVars, everSignedIn, listenerVars, pollVars, ragSources>>

\* the keys clear_user_data collects
keys_to_remove(user_email) ==
    {key \in DOMAIN localStorage :
        \/ startswith(key, storage_key_prefix \o user_email \o <<"_">>)
        \/ key = user_key(user_email)}

\* clear_user_data(user_email)
clear_user_data(user_email) ==
    /\ localStorage' = removeItems(localStorage, keys_to_remove(user_email))
    /\ latest' = [pair \in DOMAIN latest |-> IF pair[1] = user_email THEN <<>> ELSE latest[pair]]
    /\ UNCHANGED saves
    /\ UNCHANGED <<mounted, authVars, chatVars, fileVars, everSignedIn, listenerVars, pollVars, ragSources>>

\* key.split('_')[-1]: the text after the last underscore
RECURSIVE lastPiece(_)
lastPiece(key) ==
    IF key = <<>> \/ key[Len(key)] = "_" THEN <<>>
    ELSE lastPiece(SubSeq(key, 1, Len(key) - 1)) \o <<key[Len(key)]>>

\* the conversation keys get_all_user_conversations visits for a user
conversation_keys(user_email) ==
    {key \in DOMAIN localStorage : startswith(key, storage_key_prefix \o user_email \o <<"_">>)}

\* get_all_user_conversations(user_email): the dictionaries the loop can build.
\* Two keys with the same last piece write the same entry, and the order in
\* which localStorage.key(i) lists the keys decides which one stays.
get_all_user_conversations(user_email) ==
    LET names == {lastPiece(key) : key \in conversation_keys(user_email)}
    IN {d \in [names -> {parse(localStorage[key].messages) : key \in conversation_keys(user_email)}] :
           \A n \in names : \E key \in conversation_keys(user_email) :
               lastPiece(key) = n /\ d[n] = parse(localStorage[key].messages)}

\* the storage service alone, in a page whose React root is not created
StorageNext ==
    \/ \E user_email \in Emails, agent_role \in AgentRole, messages \in Conversations :
          save_conversation_to_local(user_email, agent_role, messages)
    \/ \E user_email \in Emails : save_user_session(user_email)
    \/ \E user_email \in Emails : clear_user_data(user_email)

StorageSpec == ProviderInit /\ [][StorageNext]_vars

\* ---------------------------------------------------------------- claims
\* a step in which turn t runs its catch block
Fails(t) == InFlight(t) /\ turns'[t].pc = "failed"

\* a step of a turn that is in flight
TurnStep(t) ==
    \/ \E n \in TokenCounts : CountInputTokens(t, n)
    \/ CountInputTokensFails(t)
    \/ OpenStream(t)
    \/ OpenStreamFails(t)
    \/ \E c \in ChunkTexts(turns[t].chunks + 1) : StreamChunk(t, c)
    \/ StreamFails(t)
    \/ StreamEnds(t)
    \/ \E n \in TokenCounts : CountOutputTokens(t, n)
    \/ CountOutputTokensFails(t)

\* the names a welcome message can carry
UserNames ==
    {nameOrThere(GuestUser(n)) : n \in GuestNames} \cup {nameOrThere(GoogleUserOf(n)) : n \in GoogleNames}

\* m is a welcome message of agent a, for some user
IsWelcome(m, a) ==
    /\ m.role = "assistant"
    /\ m.agentId = a
    /\ \E n \in UserNames : m.content = getWelcomeMessage(a, n)

\* C1: while a turn is in flight (from its acceptance to its final cleanup) no
\* further Submit is accepted: no step starts a second turn.
C1_SubmitGuard ==
    [][(\E t \in TurnIds : InFlight(t))
        => \A t \in TurnIds : turns[t].pc = "unused" => turns'[t].pc = "unused"]_vars

\* C2: a turn that fails after a non-empty chunk created its assistant message
\* appends nothing: the captured agent's sequence is as it was before the failure.
C2_NoAppendAfterPartial ==
    [][\A t \in TurnIds : (Fails(t) /\ ~turns[t].firstChunk)
        => historyOf(chatHistories', turns[t].agent) = historyOf(chatHistories, turns[t].agent)]_vars

\* C3: a turn that fails before any assistant message was created for it appends
\* exactly the fixed-text fallback message, at the tail of the sequence of the
\* agent captured at submission, and changes no other sequence.
C3_OneFallback ==
    [][\A t \in TurnIds : (Fails(t) /\ turns[t].firstChunk) =>
        LET a == turns[t].agent
            before == historyOf(chatHistories, a)
            after == historyOf(chatHistories', a)
        IN /\ Len(after) = Len(before) + 1
           /\ SubSeq(after, 1, Len(before)) = before
           /\ after[Len(after)].role = "assistant"
           /\ after[Len(after)].content = ERROR_TEXT
           /\ after[Len(after)].agentId = a
           /\ \A b \in AgentRole \ {a} :
                historyOf(chatHistories', b) = historyOf(chatHistories, b)]_vars

\* C3 witness: the only turn so far failed before any chunk, and its agent's
\* sequence is the welcome message, the user message and the fallback message
C3_Witness ==
    /\ turns[1].pc = "failed" /\ turns[2].pc = "unused"
    /\ LET h == historyOf(chatHistories, turns[1].agent)
       IN /\ Len(h) = 3
          /\ h[2].role = "user"
          /\ h[3] = errorMessageOf(turns[1].agent)

\* C4: the flags are released on every path: whenever the loading or the
\* streaming flag is set, a step of some turn is still to come that leads to the
\* cleanup, so that no path leaves a flag set for ever.
C4_FlagsReleased ==
    (isLoading \/ isStreaming) => ENABLED (\E t \in TurnIds : TurnStep(t))

\* C5: every sign-out leaves the conversation mapping empty and the list of
\* uploaded files empty.
C5_SignOutClears ==
    [][(user # Null /\ user' = Null)
        => (chatHistories' = EmptyHistories /\ uploadedFiles' = <<>>)]_vars

\* C6: the first sign-in leaves, for each of the four agents, exactly one message:
\* the assistant message of that agent whose content is the agent's welcome text
\* for the user's name (the name, or 'there' for a user without a name).
C6_FirstSignIn ==
    [][(~everSignedIn /\ user' # Null) =>
        /\ DOMAIN chatHistories' = AgentRole
        /\ Cardinality(AgentRole) = 4
        /\ \A a \in AgentRole :
            /\ Len(chatHistories'[a]) = 1
            /\ chatHistories'[a][1].role = "assistant"
            /\ chatHistories'[a][1].agentId = a
            /\ chatHistories'[a][1].content = getWelcomeMessage(a, nameOrThere(user'))]_vars

\* C6 witness: a user is signed in and every agent holds one message
C6_Witness ==
    /\ everSignedIn /\ user # Null
    /\ DOMAIN chatHistories = AgentRole
    /\ \A a \in AgentRole : Len(chatHistories[a]) = 1

\* C7: every transition from no user to a signed-in user leaves every agent with
\* a sequence that starts with the welcome message for the new user, and no step
\* taken while that user stays signed in changes that first message.
C7_InitOnEverySignIn ==
    [][/\ (user = Null /\ user' # Null) =>
            \A a \in AgentRole : /\ historyOf(chatHistories', a) # <<>>
                                 /\ historyOf(chatHistories', a)[1] = welcomeOf(a, user')
       /\ (user # Null /\ user' = user) =>
            \A a \in DOMAIN chatHistories :
                (chatHistories[a] # <<>> /\ IsWelcome(chatHistories[a][1], a))
                    => historyOf(chatHistories', a)[1] = chatHistories[a][1]]_vars

\* C8: every sequence of the mapping is non-empty, starts with a welcome message
\* of its agent and holds no second welcome message.
C8_StartsWithWelcome ==
    \A a \in DOMAIN chatHistories :
        /\ chatHistories[a] # <<>>
        /\ IsWelcome(chatHistories[a][1], a)
        /\ \A i \in 2..Len(chatHistories[a]) : ~IsWelcome(chatHistories[a][i], a)

\* C9: the token count never decreases, and it changes only when a turn adds the
\* count a countTokens call returned.
C9_TokenCountGrows ==
    [][/\ tokenCount' >= tokenCount
       /\ tokenCount' # tokenCount =>
            \E t \in TurnIds : \/ turns[t].pc = "countInput" /\ turns'[t].pc = "openStream"
                               \/ turns[t].pc = "countOutput" /\ turns'[t].pc = "done"]_vars

\* C9 witness: counts were added and the user has signed out since
C9_Witness == tokenCount >= 2 /\ user = Null /\ everSignedIn

\* C10: a file selection with (files already listed + files selected) > 5 is
\* rejected as a whole: the list of uploaded files, the pending reads and the
\* timers stay as they were and the one error message is the maximum-files
\* message; a selection with a total of at most 5 is not rejected by this check
\* and the reads of its files that pass the size check are started.
C10_BatchOverLimit ==
    [][\A files \in FileSelections :
          handleFileChange(files) =>
              IF Len(uploadedFiles) + Len(files) > 5
              THEN /\ uploadedFiles' = uploadedFiles
                   /\ batches' = batches
                   /\ timers' = timers
                   /\ fileError' = MaxFilesError
              ELSE /\ fileError' # MaxFilesError
                   /\ (\E i \in 1..Len(files) : files[i].size <= MAX_FILE_SIZE_BYTES)
                        => /\ Len(batches') = Len(batches) + 1
                           /\ batches'[Len(batches')].files = files]_vars

\* C10 witness: a selection was rejected for the count while a listed file was
\* still uploading
C10_Witness ==
    /\ fileError = MaxFilesError
    /\ Len(uploadedFiles) >= 1
    /\ \E i \in 1..Len(uploadedFiles) : uploadedFiles[i].status = "uploading"
    /\ timers # <<>>

\* the entries a selection contributes according to C11: one per file of at
\* most 10 MiB whose read succeeded, in the order of the selection
RECURSIVE C11_Added(_, _)
C11_Added(files, readOk) ==
    IF files = <<>> THEN <<>>
    ELSE (IF Head(files).size <= 10 * 1024 * 1024 /\ Head(readOk)
          THEN <<[name |-> Head(files).name, status |-> "uploading", progress |-> 0]>>
          ELSE <<>>)
         \o C11_Added(Tail(files), Tail(readOk))

C11_Shown(entries) ==
    [j \in 1..Len(entries) |->
        [name |-> entries[j].file.name, status |-> entries[j].status, progress |-> entries[j].progress]]

C12_Holds(h, text) == \E i \in 1..Len(h) : h[i].role = "assistant" /\ h[i].content = text

\* C12: chunks are applied in arrival order to the turn's assistant message: when
\* a later non-empty chunk arrives while the captured agent's sequence holds the
\* assistant message with the concatenation of the turn's earlier non-empty
\* chunks, that sequence afterwards holds the assistant message with the
\* concatenation extended by the chunk.
C12_ChunksInOrder ==
    [][\A t \in TurnIds : \A c \in ChunkTexts(turns[t].chunks + 1) :
          (/\ StreamChunk(t, c)
           /\ c # <<>>
           /\ ~turns[t].firstChunk
           /\ C12_Holds(historyOf(chatHistories, turns[t].agent), turns[t].fullResponse))
          => C12_Holds(historyOf(chatHistories', turns[t].agent), turns[t].fullResponse \o c)]_vars

\* C13: after n accepted submissions the query history holds min(n, 50) entries,
\* newest first, and they are the most recent submissions; a rejected Submit
\* records nothing and a failing turn keeps its entry.
C13_QueryHistory ==
    /\ Len(queryHistory) = (IF submissions < 50 THEN submissions ELSE 50)
    /\ \A i \in 1..Len(queryHistory) : queryHistory[i].id = submissions - (i - 1)

\* C13 witness: more than 50 submissions were accepted, the last one failed
C13_Witness ==
    /\ submissions > 50
    /\ Len(queryHistory) = 50
    /\ \E t \in TurnIds : turns[t].pc = "failed"

\* how far a status is along uploading -> processing -> ready
C14_Rank(status) == CASE status = "uploading" -> 0 [] status = "processing" -> 1 [] status = "ready" -> 2

\* C14: the status of an uploaded file only moves forward: in a step that removes
\* no file (the entries keep their positions) no entry's status goes back.
C14_StatusForward ==
    [][Len(uploadedFiles') >= Len(uploadedFiles)
        => \A i \in 1..Len(uploadedFiles) :
              C14_Rank(uploadedFiles'[i].status) >= C14_Rank(uploadedFiles[i].status)]_vars

\* the sequences of the agents other than a are the same in mappings h and g
C15_OthersSame(h, g, a) ==
    \A b \in AgentRole \ {a} : (b \in DOMAIN h <=> b \in DOMAIN g) /\ historyOf(h, b) = historyOf(g, b)

\* C15: an accepted Submit records the selected agent and appends the user
\* message to that agent's sequence; every later step of the turn that changes
\* the conversations (first chunk, later chunk, fallback message) changes the
\* sequence of the recorded agent, whichever agent is selected by then; no step
\* of a turn changes the sequence of another agent.
C15_CapturedAgent ==
    [][/\ (handleSendMessage /\ ~submitRejected) =>
            /\ \E t \in TurnIds : turns[t].pc = "unused" /\ turns'[t].pc = "countInput"
                                  /\ turns'[t].agent = selectedAgent
            /\ LET h == historyOf(chatHistories', selectedAgent)
               IN h # <<>> /\ h[Len(h)] = userMessageOf(input)
            /\ C15_OthersSame(chatHistories, chatHistories', selectedAgent)
       /\ \A t \in TurnIds :
            TurnStep(t) =>
                /\ C15_OthersSame(chatHistories, chatHistories', turns[t].agent)
                /\ chatHistories' # chatHistories =>
                      LET h == historyOf(chatHistories', turns[t].agent)
                      IN /\ h # historyOf(chatHistories, turns[t].agent)
                         /\ h # <<>>
                         /\ h[Len(h)].role = "assistant" => h[Len(h)].agentId = turns[t].agent]_vars

\* C15 witness: a turn submitted for one agent has streamed into that agent's
\* sequence while another agent is selected, whose sequence is only its welcome
C15_Witness ==
    \E t \in TurnIds :
        /\ turns[t].pc = "streaming" /\ ~turns[t].firstChunk
        /\ selectedAgent # turns[t].agent
        /\ user # Null
        /\ Len(historyOf(chatHistories, selectedAgent)) = 1
        /\ LET h == historyOf(chatHistories, turns[t].agent)
           IN Len(h) = 3 /\ h[3] = assistantMessageOf(turns[t].agent, turns[t].fullResponse)

\* C16: while a turn is streaming and no streaming turn was submitted for the
\* selected agent, no message of the selected agent's conversation is rendered
\* as streaming.
C16_IndicatorOnlyForTurnAgent ==
    (/\ ChatShown
     /\ \E t \in TurnIds : turns[t].pc = "streaming"
     /\ \A t \in TurnIds : turns[t].pc = "streaming" => turns[t].agent # selectedAgent)
    => \A index \in 1..Len(currentChatHistory) : ~bubbleIsStreaming(index)

\* the number of user messages of a sequence
C17_UserMessages(h) == Cardinality({i \in 1..Len(h) : h[i].role = "user"})

\* C17: a Submit whose input is empty or blanks only, or that comes while the
\* loading flag is set, changes nothing at all; so from a state with such an
\* input or with the flag set no step starts a turn, records a query or appends
\* a user message.
C17_RejectedSubmit ==
    [][(trim(input) = <<>> \/ isLoading) =>
          /\ handleSendMessage => UNCHANGED vars
          /\ submissions' = submissions
          /\ queryHistory' = queryHistory
          /\ \A t \in TurnIds : turns[t].pc = "unused" => turns'[t].pc = "unused"
          /\ \A a \in AgentRole :
                C17_UserMessages(historyOf(chatHistories', a)) <= C17_UserMessages(historyOf(chatHistories, a))]_vars

\* C17 witness: the chat is shown with an input of blanks only after an earlier
\* submission, and a Submit is possible
C17_Witness ==
    /\ ChatShown
    /\ input # <<>> /\ trim(input) = <<>>
    /\ submissions = 1 /\ Len(queryHistory) = 1
    /\ ENABLED handleSendMessage

\* C18: when the input token count fails the turn ends in its error outcome in
\* that step, with the token count as it was; a turn that ended never requests
\* a stream, and a stream is requested only after the input count succeeded.
C18_InputCountFailure ==
    [][\A t \in TurnIds :
          /\ CountInputTokensFails(t) =>
                /\ turns'[t].pc = "failed"
                /\ tokenCount' = tokenCount
                /\ historyOf(chatHistories', turns[t].agent)
                     = Append(historyOf(chatHistories, turns[t].agent), errorMessageOf(turns[t].agent))
          /\ turns[t].pc = "failed" => turns'[t].pc = "failed"
          /\ (turns'[t].pc = "openStream" /\ turns[t].pc # "openStream")
                => \E n \in TokenCounts : CountInputTokens(t, n)
          /\ (turns'[t].pc = "streaming" /\ turns[t].pc # "streaming") => turns[t].pc = "openStream"]_vars

\* C18 witness: the only turn so far failed, no token was counted and no stream
\* was opened
C18_Witness ==
    /\ submissions = 1
    /\ turns[1].pc = "failed"
    /\ tokenCount = 0
    /\ ~isLoading /\ ~isStreaming
    /\ user # Null
    /\ historyOf(chatHistories, turns[1].agent)[3] = errorMessageOf(turns[1].agent)

\* the parts C19 expects: one per listed file that is ready, in list order
C19_ReadyParts(files) ==
    LET ready == SelectSeq(files, LAMBDA f : f.status = "ready")
    IN [j \in 1..Len(ready) |-> [mimeType |-> ready[j].file.mimeType, data |-> ready[j].file.data]]

\* C19: the request of an accepted Submit carries one inline-data part for each
\* listed file that is ready when the Submit is made, in list order, and no part
\* for a file that is uploading or processing; the parts stay the same until the
\* turn ends.
C19_ReadyFilesOnly ==
    [][/\ (handleSendMessage /\ ~submitRejected) =>
            \E t \in TurnIds : /\ turns[t].pc = "unused" /\ turns'[t].pc = "countInput"
                                /\ turns'[t].fileParts = C19_ReadyParts(uploadedFiles)
       /\ \A t \in TurnIds : (InFlight(t) /\ turns'[t].pc = turns[t].pc)
                                => turns'[t].fileParts = turns[t].fileParts]_vars

\* C19 witness: a turn is in flight whose request carries the one ready file of
\* a list that also holds a file that is not ready
C19_Witness ==
    \E t \in TurnIds :
        /\ turns[t].pc = "countInput"
        /\ Len(turns[t].fileParts) = 1
        /\ Len(uploadedFiles) = 2
        /\ uploadedFiles[1].status = "ready" /\ uploadedFiles[2].status # "ready"

\* how often x occurs in the sequence seq
C20_Count(seq, x) == Cardinality({i \in 1..Len(seq) : seq[i] = x})

\* the callbacks of the registrations whose handle was not called, in order
C20_Subscribed(s) ==
    LET open == SelectSeq(s, LAMBDA r : r.live)
    IN [i \in 1..Len(open) |-> open[i].callback]

\* C20: a guest sign-in, a credential sign-in and a sign-out call every listener
\* that is subscribed at that moment once, with the new user, which is also what
\* getCurrentUser returns; and after every step the registered listeners are
\* those whose unsubscribe handle was not called.
C20_Listeners ==
    [][/\ ((\E n \in GuestNames : signInAsGuest(n))
           \/ (\E n \in GoogleNames : handleCredentialResponse(n))
           \/ signOut)
          => /\ \A i \in 1..Len(notified') : notified'[i].value = getCurrentUser'
             /\ \A c \in Callbacks :
                   C20_Count([i \in 1..Len(notified') |-> notified'[i].callback], c)
                     = C20_Count(C20_Subscribed(subs), c)
       /\ \A c \in Callbacks : C20_Count(listeners', c) = C20_Count(C20_Subscribed(subs'), c)]_vars

\* C21: while a turn streams after its first non-empty chunk, the last message
\* of the captured agent's sequence is the assistant message holding the text
\* the turn has received so far; and a chunk changes the content of that message
\* only: every message that is not the turn's assistant message keeps its content.
C21_OnlyTurnMessageGrows ==
    [][\A t \in TurnIds : \A c \in ChunkTexts(turns[t].chunks + 1) :
          (StreamChunk(t, c) /\ mounted') =>
              LET before == historyOf(chatHistories, turns[t].agent)
                  after == historyOf(chatHistories', turns[t].agent)
              IN /\ ~turns'[t].firstChunk =>
                      (after # <<>> /\ after[Len(after)] = assistantMessageOf(turns[t].agent, turns'[t].fullResponse))
                 /\ \A i \in 1..Len(before) :
                      before[i] # assistantMessageOf(turns[t].agent, turns[t].fullResponse)
                          => (i <= Len(after) /\ after[i].content = before[i].content)]_vars

\* C22: as long as a turn is in flight and no chunk has created its assistant
\* message, the loading flag is set; and the streaming flag is set only when some
\* turn in flight has received a non-empty chunk.
C22_LoadingUntilFirstChunk ==
    /\ \A t \in TurnIds : (InFlight(t) /\ turns[t].firstChunk) => isLoading
    /\ isStreaming => \E t \in TurnIds : InFlight(t) /\ ~turns[t].firstChunk

\* text s is the beginning of text r
C23_IsPrefix(s, r) == Len(s) <= Len(r) /\ SubSeq(r, 1, Len(s)) = s

\* message m of agent a's sequence is the assistant message some streaming turn is building
C23_InProgress(m, a) ==
    \E t \in TurnIds : /\ turns[t].pc = "streaming" /\ turns[t].agent = a /\ ~turns[t].firstChunk
                       /\ m = assistantMessageOf(a, turns[t].fullResponse)

\* C23: in every step but a sign-out, every sequence keeps the messages it has,
\* at their positions, and may only get longer; the one change to a message
\* already there is that the last message, when it is the assistant message of a
\* streaming turn, gets a longer content.
C23_GrowsAtTail ==
    [][~handleSignOut =>
          \A a \in AgentRole :
              LET before == historyOf(chatHistories, a)
                  after == historyOf(chatHistories', a)
              IN /\ Len(after) >= Len(before)
                 /\ \A i \in 1..Len(before) :
                      \/ after[i] = before[i]
                      \/ /\ i = Len(before)
                         /\ C23_InProgress(before[i], a)
                         /\ after[i].role = before[i].role
                         /\ after[i].agentId = before[i].agentId
                         /\ C23_IsPrefix(before[i].content, after[i].content)]_vars

\* text r ends with text s
C24_EndsWith(r, s) == Len(s) <= Len(r) /\ SubSeq(r, Len(r) - Len(s) + 1, Len(r)) = s

\* C24: a turn that is in flight when nobody is signed in goes on: a non-empty
\* chunk that arrives then is applied, so that afterwards the chat is still
\* mounted and the captured agent's sequence ends with an assistant message whose
\* content ends with the chunk; a failure that arrives then appends the fallback
\* message under the captured agent and clears both flags; and the token counts
\* of the turn are added as for a signed-in user.
C24_SignOutDoesNotCancel ==
    [][\A t \in TurnIds :
          user = Null =>
              LET a == turns[t].agent
                  after == historyOf(chatHistories', a)
              IN /\ \A c \in ChunkTexts(turns[t].chunks + 1) :
                      (StreamChunk(t, c) /\ c # <<>>) =>
                          /\ mounted'
                          /\ DOMAIN chatHistories' = DOMAIN chatHistories \cup {a}
                          /\ after # <<>>
                          /\ after[Len(after)].role = "assistant"
                          /\ C24_EndsWith(after[Len(after)].content, c)
                 /\ Fails(t) =>
                          /\ after = Append(historyOf(chatHistories, a), errorMessageOf(a))
                          /\ ~isLoading' /\ ~isStreaming'
                 /\ \A n \in TokenCounts :
                      (CountInputTokens(t, n) \/ CountOutputTokens(t, n)) => tokenCount' = tokenCount + n]_vars

\* C25: an empty chunk changes nothing but the stream's position: no message is
\* created or changed, the turn still waits for its first chunk if it did, the
\* stream stays open and the flags stay; the first non-empty chunk of a turn,
\* whatever empty chunks came before it, appends the assistant message with that
\* chunk as content; and the end of a stream and the output count append nothing.
C25_EmptyChunkSkipped ==
    [][\A t \in TurnIds :
          LET a == turns[t].agent
          IN /\ StreamChunk(t, <<>>) =>
                  /\ chatHistories' = chatHistories
                  /\ mounted'
                  /\ turns'[t].pc = "streaming"
                  /\ turns'[t].firstChunk = turns[t].firstChunk
                  /\ turns'[t].fullResponse = turns[t].fullResponse
                  /\ isLoading' = isLoading /\ isStreaming' = isStreaming
             /\ \A c \in ChunkTexts(turns[t].chunks + 1) :
                  (StreamChunk(t, c) /\ c # <<>> /\ turns[t].fullResponse = <<>>) =>
                      /\ historyOf(chatHistories', a)
                           = Append(historyOf(chatHistories, a), assistantMessageOf(a, c))
                      /\ ~turns'[t].firstChunk
             /\ (StreamEnds(t) \/ \E n \in TokenCounts : CountOutputTokens(t, n)) =>
                  chatHistories' = chatHistories]_vars

\* C25 witness: the first chunk of a stream was empty and the second was not:
\* the stream is still open and the assistant message holds the second chunk
C25_Witness ==
    \E t \in TurnIds :
        /\ turns[t].pc = "streaming" /\ turns[t].chunks = 2
        /\ turns[t].fullResponse = <<"c", 2>>
        /\ LET h == historyOf(chatHistories, turns[t].agent)
           IN Len(h) = 3 /\ h[2].role = "user" /\ h[3] = assistantMessageOf(turns[t].agent, <<"c", 2>>)

\* the order of a turn's stages: each stage leads to the next one, to itself or
\* to the failure
C26_Follows(pc, next) ==
    \/ next = pc
    \/ pc = "unused" /\ next = "countInput"
    \/ pc = "countInput" /\ next \in {"openStream", "failed"}
    \/ pc = "openStream" /\ next \in {"streaming", "failed"}
    \/ pc = "streaming" /\ next \in {"countOutput", "failed"}
    \/ pc = "countOutput" /\ next \in {"done", "failed"}

\* C26: a turn goes through its stages in the order: user message appended,
\* input count added, stream requested, chunks applied, output count added, end.
\* The token count is raised by the input count when the count resolves and by
\* the output count when the turn ends after its stream was exhausted, and at
\* no other step; the text whose tokens are counted is the concatenation of all
\* the chunks the stream delivered; a turn that ended is never counted again and
\* a turn that fails adds nothing in its failing step.
C26_TurnOrder ==
    [][\A t \in TurnIds :
          /\ C26_Follows(turns[t].pc, turns'[t].pc)
          /\ (turns[t].pc = "unused" /\ turns'[t].pc = "countInput") =>
                LET h == historyOf(chatHistories', turns'[t].agent)
                IN h # <<>> /\ h[Len(h)] = userMessageOf(input) /\ tokenCount' = tokenCount
          /\ \A c \in ChunkTexts(turns[t].chunks + 1) :
                (StreamChunk(t, c) /\ mounted') =>
                    turns'[t].fullResponse = turns[t].fullResponse \o c /\ tokenCount' = tokenCount
          /\ (turns[t].pc \in {"streaming", "countOutput"} /\ turns'[t].pc = "countOutput"
                /\ ~ \E c \in ChunkTexts(turns[t].chunks + 1) : StreamChunk(t, c))
                => turns'[t].fullResponse = turns[t].fullResponse
          /\ Fails(t) => tokenCount' = tokenCount
          /\ tokenCount' # tokenCount =>
                \E u \in TurnIds :
                    /\ \/ turns[u].pc = "countInput" /\ turns'[u].pc = "openStream"
                       \/ turns[u].pc = "countOutput" /\ turns'[u].pc = "done"
                    /\ \A v \in TurnIds \ {u} : turns'[v] = turns[v]]_vars

\* C26 witness: the only turn so far went through every stage: both counts were
\* added and the assistant message holds both chunks
C26_Witness ==
    /\ turns[1].pc = "done" /\ turns[2].pc = "unused"
    /\ tokenCount = 2
    /\ ~isLoading /\ ~isStreaming
    /\ LET h == historyOf(chatHistories, turns[1].agent)
       IN Len(h) = 3 /\ h[3] = assistantMessageOf(turns[1].agent, <<"c", 1, "c", 2>>)

\* the enabled sources in key order, separated by ", "
C27_Listed(sources) ==
    LET on == SelectSeq(RagSourceKeys, LAMBDA key : sources[key])
    IN [i \in 1..(IF on = <<>> THEN 0 ELSE 2 * Len(on) - 1) |->
            IF i % 2 = 1 THEN on[(i + 1) \div 2] ELSE ", "]

\* C27: the request of an accepted Submit holds one entry per message that was
\* in the selected agent's sequence before the Submit, in order, with role
\* "model" for an assistant message and "user" for a user message and the
\* message's content as its one text part, and then one user entry whose parts
\* are the parts of the ready files followed by one text part: the preamble that
\* lists the enabled sources, and no disabled one, followed by the input as typed.
\* The request stays the same until the stream was requested with it.
C27_RequestContents ==
    [][/\ (handleSendMessage /\ ~submitRejected) =>
            \E t \in TurnIds :
                /\ turns[t].pc = "unused" /\ turns'[t].pc = "countInput"
                /\ LET before == historyOf(chatHistories, selectedAgent)
                       contents == turns'[t].inputContents
                       last == contents[Len(contents)]
                       ready == C19_ReadyParts(uploadedFiles)
                   IN /\ Len(contents) = Len(before) + 1
                      /\ \A i \in 1..Len(before) :
                            /\ contents[i].role = (IF before[i].role = "assistant" THEN "model" ELSE "user")
                            /\ before[i].role \in {"assistant", "user"}
                            /\ contents[i].parts = <<[text |-> before[i].content]>>
                      /\ last.role = "user"
                      /\ Len(last.parts) = Len(ready) + 1
                      /\ \A j \in 1..Len(ready) : last.parts[j] = [inlineData |-> ready[j]]
                      /\ last.parts[Len(ready) + 1]
                            = [text |-> <<"Using data from: [">> \o C27_Listed(ragSources)
                                          \o <<"].", "\n\n">> \o input]
       /\ \A t \in TurnIds : (turns[t].pc \in {"countInput", "openStream"}
                                /\ turns'[t].pc \in {"countInput", "openStream"})
                                => turns'[t].inputContents = turns[t].inputContents]_vars

\* C27 witness: the second request of a conversation, made with one ready file
\* and with the sources switched: it holds the welcome message, the first user
\* message, the fallback message and the new user turn with two parts
C27_Witness ==
    \E t \in TurnIds :
        /\ turns[t].pc = "countInput"
        /\ Len(turns[t].inputContents) = 4
        /\ turns[t].inputContents[1].role = "model" /\ turns[t].inputContents[2].role = "user"
        /\ Len(turns[t].inputContents[4].parts) = 2
        /\ ragSources["sensors"] /\ ~ragSources["standards"]
        /\ turns[t].inputContents[4].parts[2].text
              = <<"Using data from: [", "internal", ", ", "sensors", "].", "\n\n", " ", "q">>

\* timer chain k was started for entry f
C28_StartedFor(k, f) == f.origin = [batch |-> timers[k].batch, index |-> timers[k].index]

\* C28: a removal takes out the entry at its index and nothing else: the entries
\* before it stay, the entries after it move up by one, unchanged, and no timer
\* is touched; and, already when all the listed files come from one selection,
\* every firing of a timer of that selection changes only an entry the timer
\* was started for.
C28_RemoveOnlyThat ==
    [][/\ \A index \in 0..(Len(uploadedFiles) - 1) :
            RemoveFile(index) =>
                /\ Len(uploadedFiles') = Len(uploadedFiles) - 1
                /\ \A i \in 1..index : uploadedFiles'[i] = uploadedFiles[i]
                /\ \A i \in (index + 2)..Len(uploadedFiles) : uploadedFiles'[i - 1] = uploadedFiles[i]
                /\ timers' = timers
       /\ \A k \in 1..Len(timers) :
            ((IntervalTick(k) \/ UploadTimeout(k) \/ ReadyTimeout(k))
             /\ \A i \in 1..Len(uploadedFiles) : uploadedFiles[i].origin.batch = timers[k].batch) =>
                \A i \in 1..Len(uploadedFiles) :
                    uploadedFiles'[i] # uploadedFiles[i] => C28_StartedFor(k, uploadedFiles[i])]_vars

\* C29: the progress of every listed file is between 0 and 100; from one state
\* to the next the progress of a file that stays listed does not go down, and it
\* goes up only while the file's status is uploading: by 10, or to 100 in the step
\* that ends the upload and makes the file processing.
C29_Progress ==
    [][/\ \A j \in 1..Len(uploadedFiles') : uploadedFiles'[j].progress \in 0..100
       /\ \A i \in 1..Len(uploadedFiles) : \A j \in 1..Len(uploadedFiles') :
            uploadedFiles'[j].origin = uploadedFiles[i].origin =>
                /\ uploadedFiles'[j].progress >= uploadedFiles[i].progress
                /\ uploadedFiles'[j].progress > uploadedFiles[i].progress =>
                      /\ uploadedFiles[i].status = "uploading"
                      /\ \/ uploadedFiles'[j].progress = uploadedFiles[i].progress + 10
                         \/ uploadedFiles'[j].progress = 100 /\ uploadedFiles'[j].status = "processing"]_vars

\* C30: whatever the token count is, also at or above the displayed limit, a
\* Submit with a non-blank input made while the chat is shown and no turn is
\* loading is accepted; and a count that resolves is added also when the sum
\* passes the limit.
C30_LimitNotEnforced ==
    [][/\ (ChatShown /\ trim(input) # <<>> /\ ~isLoading /\ FreeTurns # {} /\ submissions < MaxQueries)
            => ENABLED (handleSendMessage /\ submissions' = submissions + 1)
       /\ \A t \in TurnIds : \A n \in LargeTokenCounts :
            CountInputTokens(t, n) => tokenCount' = tokenCount + n]_vars

\* C30 witness: a Submit was accepted with the token count above the limit
C30_Witness ==
    /\ tokenCount > TOTAL_TOKEN_LIMIT
    /\ isLoading
    /\ \E t \in TurnIds : turns[t].pc = "countInput" /\ \A u \in TurnIds \ {t} : ~InFlight(u)

\* C31: the auth-loading flag is eventually cleared, also when the provider was
\* set up with the Google script and notifies nobody; once cleared it stays
\* cleared; and the first sign-in notified after the flag was cleared sets the
\* user to the provider's user and creates the welcome messages for that user.
C31_AuthLoadingCleared ==
    /\ <>(~isAuthLoading)
    /\ [][~isAuthLoading => ~isAuthLoading']_vars
    /\ [][(~isAuthLoading /\ ~everSignedIn /\ authUser' # Null) =>
            /\ user' = authUser'
            /\ chatHistories' = initialHistories(authUser')
            /\ ~isAuthLoading']_vars

\* C31 witness: the provider was set up with the Google script, so only the
\* timeout can have cleared the flag, and a user has signed in since and has the
\* welcome messages
C31_Witness ==
    /\ isInitialized
    /\ ~isAuthLoading
    /\ user # Null /\ user = authUser
    /\ chatHistories = initialHistories(user)

\* C32: loading a pair (email, role) returns the messages of the last save made
\* for that pair and not cleared since, whatever was saved for other pairs, and
\* no conversation when the pair was never saved or the user's data was cleared.
C32_LoadReturnsLastSave ==
    \A user_email \in Emails : \A agent_role \in AgentRole :
        load_conversation_from_local(user_email, agent_role) = latest[<<user_email, agent_role>>]

\* C32 witness: a pair was saved twice and another user's data was written and
\* cleared: the pair still loads its second conversation
C32_Witness ==
    /\ saves = 3
    /\ \E user_email \in Emails : \E agent_role \in AgentRole :
          /\ load_conversation_from_local(user_email, agent_role) = <<<<userMessageOf(<<"q">>)>>>>
          /\ \A other \in Emails \ {user_email} : \A a \in AgentRole :
                load_conversation_from_local(other, a) = <<>>
          /\ Cardinality(DOMAIN localStorage) = 1

\* C33: the list of uploaded files never holds more than MAX_FILES entries.
C33_AtMostMaxFiles == Len(uploadedFiles) <= MAX_FILES

C34_Origins == [batch : 1..MaxBatches, index : 1..MAX_FILES]

C34_Listed(o) == \E i \in 1..Len(uploadedFiles) : uploadedFiles[i].origin = o

C34_Ready(o) == \E i \in 1..Len(uploadedFiles) : uploadedFiles[i].origin = o /\ uploadedFiles[i].status = "ready"

\* C34: every file that is in the list of uploaded files and is not removed
\* eventually has status ready.
C34_EventuallyReady == \A o \in C34_Origins : C34_Listed(o) ~> (C34_Ready(o) \/ ~C34_Listed(o))

\* C35: the loading flag and the streaming flag are never both true.
C35_NotLoadingAndStreaming == ~(isLoading /\ isStreaming)

C36_Calls(seq, c) == Cardinality({i \in 1..Len(seq) : seq[i].callback = c})

\* C36: a notification calls every listener that is subscribed when it starts
\* and does not unsubscribe itself exactly once, with the new value; the
\* first call of an unsubscribe handle removes exactly one registration and a
\* later call of it removes none.
C36_NotifyAndUnsubscribe ==
    [][/\ ((\E n \in GuestNames : signInAsGuest(n))
           \/ (\E n \in GoogleNames : handleCredentialResponse(n))
           \/ signOut)
          => \A c \in Callbacks :
                ~selfUnsubscribing(c)
                  => /\ C36_Calls(notified', c) = C20_Count(listeners, c)
                     /\ \A i \in 1..Len(notified') :
                           notified'[i].callback = c => notified'[i].value = getCurrentUser'
       /\ \A s \in 1..Len(subs) :
             unsubscribe(s) => Len(listeners') = Len(listeners) - (IF subs[s].live THEN 1 ELSE 0)]_vars

C37_Rejected == \E response \in RejectedResponses : rejectedCredentialResponse(response)

C37_TimedOut == checkGoogle(FALSE, FALSE) /\ attempts' = maxAttempts

\* C37: a credential response that is not accepted leaves the provider's user
\* and listeners as they were and calls no listener; signIn before
\* initialization throws and leaves the user as it was; the script is
\* checked for at most maxAttempts times, and the check that uses up the
\* attempts ends the polling and calls every subscribed listener with null.
C37_ProviderErrors ==
    [][/\ C37_Rejected
          => /\ getCurrentUser' = getCurrentUser
             /\ UNCHANGED <<isInitialized, listeners, subs, notified>>
       /\ (~isInitialized /\ \E prompts \in BOOLEAN : signIn(prompts))
          => /\ getCurrentUser' = getCurrentUser
             /\ lastError' = NotAvailableError
       /\ attempts' <= maxAttempts
       /\ C37_TimedOut
          => /\ authSetup' = "done"
             /\ \A i \in 1..Len(notified') : notified'[i].value = Null
             /\ \A c \in Callbacks : C20_Count(listeners, c) > 0 => C36_Calls(notified', c) > 0]_vars

C38_Kept == <<tokenCount, queryHistory, selectedAgent, ragSources>>

\* C38: a sign-out changes nothing but the signed-in user and the conversation
\* mapping, and neither the sign-out nor the next sign-in changes the token
\* count, the query history, the selected agent or the RAG source toggles.
C38_SignOutFrame ==
    [][/\ handleSignOut
          => UNCHANGED <<C38_Kept, input, isLoading, isStreaming, submissions, turns, fileVars,
                         isInitialized, authSetup, promptOpen, isAuthLoading, mounted>>
       /\ (\E n \in GuestNames : SignInAsGuest(n)) => UNCHANGED C38_Kept]_vars

\* signed out after a session in which a query was submitted and counted, the
\* agent was changed and a source was toggled
C38_Witness ==
    /\ user = Null /\ everSignedIn
    /\ DOMAIN chatHistories = {}
    /\ tokenCount > 0
    /\ queryHistory # <<>>
    /\ selectedAgent # "METHODS_SPECIALIST"
    /\ ragSources # InitialRagSources

C39_SavedRoles(user_email) == {agent_role \in AgentRole : latest[<<user_email, agent_role>>] # <<>>}

\* C39: get_all_user_conversations(user) has exactly one entry for every agent
\* role under which a conversation of that user is saved, keyed by the full
\* role, and its value is the messages saved last.
C39_AllConversations ==
    \A user_email \in Emails : \A d \in get_all_user_conversations(user_email) :
        /\ DOMAIN d = {RoleText(agent_role) : agent_role \in C39_SavedRoles(user_email)}
        /\ \A agent_role \in C39_SavedRoles(user_email) :
              d[RoleText(agent_role)] = latest[<<user_email, agent_role>>][1]

====
